---- MODULE Spec2Model ----
(***************************************************************************)
(* A model of autotester/server/utils/file_management.py: the directory    *)
(* walk (recursive_iglob), tree copy and move (copy_tree, move_tree), the  *)
(* scoped flock (fd_open, fd_lock) and the staging of a test workspace     *)
(* (copy_test_script_files, setup_files), together with the processes of   *)
(* tests/file_management_test.py that drive them.                          *)
(*                                                                         *)
(* The filesystem is one function fs from absolute paths (sequences of     *)
(* names) to entries; every call works on paths of that one filesystem, so *)
(* a destination may lie inside a source.                                  *)
(***************************************************************************)
EXTENDS Naturals, Sequences, FiniteSets, TLC

VARIABLES
  fs,        \* the filesystem: absolute path -> entry
  fs0,       \* the filesystem before the first step
  args,      \* the inputs of the run
  pc,        \* where each process is
  err,       \* the exception each process is raising, or "none"
  walk,      \* the state of each process's recursive_iglob generator
  copied,    \* copy_tree's list in each process
  yielded,   \* what a caller of recursive_iglob has collected
  fdtab,     \* each process's file descriptor: open, and the flock it holds
  queue,     \* the multiprocessing.Queue of TestFDLock
  nlock,     \* per process: flock acquisitions and releases so far
  staged,    \* per staging process: student_files, script_files, chmod index
  hist       \* per staging process: the kinds of step taken, in first-taken order

vars == <<fs, fs0, args, pc, err, walk, copied, yielded, fdtab, queue, nlock, staged, hist>>

\* the variables of the lock, the queue and staging
lockvars == <<fdtab, queue, nlock>>
stagevars == <<staged, hist>>

----------------------------------------------------------------------------
(* Bounds of the model *)

\* longest src-relative path of a generated tree
MaxDepth == 3
\* most entries (directories and files) of a generated tree
MaxEntries == 4
\* longest absolute path the filesystem accepts (the model's PATH_MAX)
PathMax == 5

Names == {"a", "b"}
Kinds == {"d", "f"}

Oct(s, u, g, o) == ((s * 8 + u) * 8 + g) * 8 + o

\* mode of a directory made by os.makedirs (0777 masked by the umask 022)
DefaultDirMode == Oct(0, 7, 5, 5)
\* mode of the files of a source tree before any call
InitFileMode == Oct(0, 6, 0, 0)
\* mode of the directories that exist before any call
InitDirMode == Oct(0, 7, 0, 0)

----------------------------------------------------------------------------
(* Paths and the filesystem *)

Last(p) == p[Len(p)]
Parent(p) == SubSeq(p, 1, Len(p) - 1)
IsPrefix(r, p) == Len(r) <= Len(p) /\ SubSeq(p, 1, Len(r)) = r
Prefixes(p) == {SubSeq(p, 1, k) : k \in 1..Len(p)}

\* os.path.relpath(p, src) for p below src
RelPath(p, src) == SubSeq(p, Len(src) + 1, Len(p))

NoData == [tag |-> "-", rel |-> <<>>]
DirEntry(m) == [kind |-> "d", mode |-> m, data |-> NoData]
FileEntry(m, d) == [kind |-> "f", mode |-> m, data |-> d]

\* os.path.isdir
IsDir(f, p) == p \in DOMAIN f /\ f[p].kind = "d"
IsFile(f, p) == p \in DOMAIN f /\ f[p].kind = "f"

\* the paths strictly below r
Below(f, r) == {p \in DOMAIN f : IsPrefix(r, p) /\ p # r}

\* the tree below r: src-relative path -> kind and file data
TreeAt(f, r) ==
  [q \in {RelPath(p, r) : p \in Below(f, r)} |->
     [kind |-> f[r \o q].kind, data |-> f[r \o q].data]]

----------------------------------------------------------------------------
(* The trees the inputs are drawn from: sets of <<relative path, kind>> *)

LeafSlots(t) ==
  {d \o <<n>> : d \in {<<>>} \cup {e[1] : e \in {x \in t : x[2] = "d"}}, n \in Names}
    \ {e[1] : e \in t}

RECURSIVE TreesOfSize(_)
TreesOfSize(k) ==
  IF k = 0 THEN {{}}
  ELSE UNION {{t \cup {<<p, kd>>} : p \in {s \in LeafSlots(t) : Len(s) <= MaxDepth},
                                    kd \in Kinds}
              : t \in TreesOfSize(k - 1)}

Trees == UNION {TreesOfSize(k) : k \in 0..MaxEntries}

KindIn(t, rel) == CHOOSE k \in Kinds : <<rel, k>> \in t

\* the tree t put below the existing directory root, its files tagged tag
Place(root, t, tag) ==
  [p \in {root} \cup {root \o e[1] : e \in t} |->
     IF p = root THEN DirEntry(InitDirMode)
     ELSE IF KindIn(t, RelPath(p, root)) = "d" THEN DirEntry(InitDirMode)
     ELSE FileEntry(InitFileMode, [tag |-> tag, rel |-> RelPath(p, root)])]

----------------------------------------------------------------------------
(* The operating system's calls, as results [ok, fs, exc] *)

Ok(f) == [ok |-> TRUE, fs |-> f, exc |-> "none"]
Fail(f, e) == [ok |-> FALSE, fs |-> f, exc |-> e]

\* os.makedirs(p, exist_ok=True)
Makedirs(f, p) ==
  LET made == {q \in Prefixes(p) : Len(q) <= PathMax} \ DOMAIN f
      g == [q \in DOMAIN f \cup made |->
              IF q \in DOMAIN f THEN f[q] ELSE DirEntry(DefaultDirMode)]
  IN IF IsFile(f, p) THEN Fail(f, "FileExistsError")
     ELSE IF \E q \in Prefixes(p) : IsFile(f, q) THEN Fail(f, "NotADirectoryError")
     ELSE IF Len(p) > PathMax THEN Fail(g, "OSError")
     ELSE Ok(g)

\* a faulty copy2 that renames: the source is gone afterwards
Copy2Moving(f, s, t) ==
  LET to == IF IsDir(f, t) THEN t \o <<Last(s)>> ELSE t
  IN IF s \notin DOMAIN f \/ to = s \/ IsDir(f, s) \/ IsDir(f, to)
       THEN Fail(f, "OSError")
       ELSE Ok([q \in (DOMAIN f \cup {to}) \ {s} |->
                  IF q = to THEN FileEntry(f[s].mode, f[s].data) ELSE f[q]])

\* shutil.copy2(s, t): into t when t is a directory; data and mode bits copied
Copy2(f, s, t) ==
  LET to == IF IsDir(f, t) THEN t \o <<Last(s)>> ELSE t
  IN IF s \notin DOMAIN f THEN Fail(f, "FileNotFoundError")
     ELSE IF to = s THEN Fail(f, "SameFileError")
     ELSE IF IsDir(f, s) \/ IsDir(f, to) THEN Fail(f, "IsADirectoryError")
     ELSE IF Len(to) > PathMax THEN Fail(f, "OSError")
     ELSE Ok([q \in DOMAIN f \cup {to} |->
                IF q = to THEN FileEntry(f[s].mode, f[s].data) ELSE f[q]])

----------------------------------------------------------------------------
(* recursive_iglob: os.walk top down, each directory listed when reached *)

\* os.scandir(d): the entries of kind k in d, in the directory's order
ListDir(f, d, k, ord) ==
  LET here == SelectSeq(ord, LAMBDA n : d \o <<n>> \in DOMAIN f /\ f[d \o <<n>>].kind = k)
  IN [i \in 1..Len(here) |-> <<k, d \o <<here[i]>>>>]

NoEntry == <<"-", <<>>>>

WalkFrom(root) == [stack |-> <<root>>, pending |-> <<>>]

\* a faulty walk that lists the root and never descends
NextEntryFlat(f, w, ord) ==
  LET ents == IF w.stack = <<>> THEN <<>>
              ELSE ListDir(f, Head(w.stack), "d", ord) \o ListDir(f, Head(w.stack), "f", ord)
      all == w.pending \o ents
  IN IF all = <<>> THEN [done |-> TRUE, entry |-> NoEntry, walk |-> w]
     ELSE [done |-> FALSE, entry |-> Head(all),
           walk |-> [stack |-> <<>>, pending |-> Tail(all)]]

RECURSIVE NextEntryFilesFirst(_, _, _)
\* a faulty generator that yields a directory's files before its subdirectories
NextEntryFilesFirst(f, w, ord) ==
  IF w.pending # <<>>
    THEN [done |-> FALSE, entry |-> Head(w.pending),
          walk |-> [w EXCEPT !.pending = Tail(@)]]
  ELSE IF w.stack = <<>>
    THEN [done |-> TRUE, entry |-> NoEntry, walk |-> w]
  ELSE LET top == Head(w.stack)
           dirnames == ListDir(f, top, "d", ord)
           filenames == ListDir(f, top, "f", ord)
       IN NextEntryFilesFirst(f,
                    [stack |-> [i \in 1..Len(dirnames) |-> dirnames[i][2]] \o Tail(w.stack),
                     pending |-> filenames \o dirnames],
                    ord)

RECURSIVE NextEntry(_, _, _)
\* the generator advanced to its next yield: [done, entry, walk]
NextEntry(f, w, ord) ==
  IF w.pending # <<>>
    THEN [done |-> FALSE, entry |-> Head(w.pending),
          walk |-> [w EXCEPT !.pending = Tail(@)]]
  ELSE IF w.stack = <<>>
    THEN [done |-> TRUE, entry |-> NoEntry, walk |-> w]
  ELSE LET top == Head(w.stack)
           dirnames == ListDir(f, top, "d", ord)
           filenames == ListDir(f, top, "f", ord)
       IN NextEntry(f,
                    [stack |-> [i \in 1..Len(dirnames) |-> dirnames[i][2]] \o Tail(w.stack),
                     pending |-> dirnames \o filenames],
                    ord)

----------------------------------------------------------------------------
(* copy_tree: the body of its loop for one yielded entry *)

\* whether the entry at src-relative path rel is skipped
Excluded(rel, exclude) == rel \in exclude

\* a faulty body that copies the files only, making the directories they need
CopyEntryFilesOnly(f, a, e) ==
  LET rel == RelPath(e[2], a.src)
      target == a.dst \o rel
      md == Makedirs(f, Parent(target))
      cp == IF ~md.ok THEN md ELSE Copy2(md.fs, e[2], target)
  IN IF Excluded(rel, a.exclude) \/ e[1] = "d"
       THEN [ok |-> TRUE, fs |-> f, exc |-> "none", rec |-> <<>>]
       ELSE [ok |-> cp.ok, fs |-> cp.fs, exc |-> cp.exc,
             rec |-> IF cp.ok THEN <<<<e[1], target>>>> ELSE <<>>]

\* [ok, fs, exc, rec]: rec is what the iteration appends to copied
CopyEntry(f, a, e) ==
  LET rel == RelPath(e[2], a.src)
      target == a.dst \o rel
      md == Makedirs(f, IF e[1] = "d" THEN target ELSE Parent(target))
      cp == IF e[1] = "d" \/ ~md.ok THEN md ELSE Copy2(md.fs, e[2], target)
  IN IF Excluded(rel, a.exclude)
       THEN [ok |-> TRUE, fs |-> f, exc |-> "none", rec |-> <<>>]
       ELSE [ok |-> cp.ok, fs |-> cp.fs, exc |-> cp.exc,
             rec |-> IF cp.ok THEN <<<<e[1], target>>>> ELSE <<>>]

----------------------------------------------------------------------------
(* flock on the descriptors of one resource, and the scopes fd_open, fd_lock *)

\* a faulty fd_lock that asks for an exclusive lock whatever the mode
LockModeExclusive(exclusive) == "ex"

\* a faulty fd_lock that asks for a shared lock whatever the mode
LockModeShared(exclusive) == "sh"

\* the operation fd_lock asks of fcntl.flock
LockMode(exclusive) == IF exclusive THEN "ex" ELSE "sh"

\* a faulty flock under which shared holders exclude one another
CompatibleWithNone(held, want) == held = "un"

\* flock(2): whether a lock held through another descriptor lets want be granted
Compatible(held, want) == held = "un" \/ (held = "sh" /\ want = "sh")

\* whether flock(h, want) returns now rather than blocks
Grantable(tab, h, want) == \A g \in DOMAIN tab \ {h} : Compatible(tab[g].lock, want)

\* a faulty fd_lock without its finally: no unlock when the body raises
UnlocksOnReturnOnly(raised) == ~raised

\* fd_lock's finally: whether the scope's exit calls flock(LOCK_UN)
UnlocksOnExit(raised) == TRUE

\* a faulty exit that leaves the descriptor's lock as it is
LockAfterExitKeeps(held, raised) == held

\* the lock a descriptor holds once fd_lock's scope is left
LockAfterExit(held, raised) == IF UnlocksOnExit(raised) THEN "un" ELSE held

----------------------------------------------------------------------------
(* Processes *)

\* "c": a test's caller; "p1", "p2": the processes of TestFDLock;
\* "s1", "s2": staging operations; "w": a writer of the shared script directory
Procs == {"c", "p1", "p2", "s1", "s2", "w"}

\* a faulty first step without the isdir test: os.walk of whatever root is
IglobStartAnyRoot(c, root, from, to, failed) ==
  /\ pc[c] = from
  /\ pc' = [pc EXCEPT ![c] = to]
  /\ walk' = [walk EXCEPT ![c] = WalkFrom(root)]
  /\ copied' = [copied EXCEPT ![c] = <<>>]
  /\ UNCHANGED <<fs, fs0, args, err, yielded>>

\* recursive_iglob's first step: the root must be a directory
IglobStart(c, root, from, to, failed) ==
  /\ pc[c] = from
  /\ IF IsDir(fs, root)
       THEN /\ pc' = [pc EXCEPT ![c] = to]
            /\ walk' = [walk EXCEPT ![c] = WalkFrom(root)]
            /\ err' = err
       ELSE /\ pc' = [pc EXCEPT ![c] = failed]
            /\ err' = [err EXCEPT ![c] = "ValueError"]
            /\ walk' = walk
  /\ copied' = [copied EXCEPT ![c] = <<>>]
  /\ UNCHANGED <<fs, fs0, args, yielded>>

\* a caller of recursive_iglob that collects what it yields
IglobStep(c) ==
  /\ pc[c] = "iglob"
  /\ LET nx == NextEntry(fs, walk[c], args.ord)
     IN IF nx.done
          THEN /\ pc' = [pc EXCEPT ![c] = "done"]
               /\ UNCHANGED <<walk, yielded>>
          ELSE /\ walk' = [walk EXCEPT ![c] = nx.walk]
               /\ yielded' = [yielded EXCEPT ![c] = Append(@, nx.entry)]
               /\ pc' = pc
  /\ UNCHANGED <<fs, fs0, args, err, copied>>

\* one iteration of copy_tree(a.src, a.dst, a.exclude), or its return
CopyTreeStep(c, a, here, done, failed) ==
  /\ pc[c] = here
  /\ \E nx \in {NextEntry(fs, walk[c], args.ord)} :
       \E r \in {CopyEntry(fs, a, nx.entry)} :
         IF nx.done
           THEN /\ pc' = [pc EXCEPT ![c] = done]
                /\ UNCHANGED <<fs, walk, copied, err>>
           ELSE /\ walk' = [walk EXCEPT ![c] = nx.walk]
                /\ fs' = r.fs
                /\ copied' = [copied EXCEPT ![c] = @ \o r.rec]
                /\ err' = [err EXCEPT ![c] = r.exc]
                /\ pc' = [pc EXCEPT ![c] = IF r.ok THEN here ELSE failed]
  /\ UNCHANGED <<fs0, args, yielded>>

\* a failure of the operating system (disk full, I/O error) in an iteration
CopyTreeIOError(c, here, failed) ==
  /\ pc[c] = here
  /\ ~NextEntry(fs, walk[c], args.ord).done
  /\ pc' = [pc EXCEPT ![c] = failed]
  /\ err' = [err EXCEPT ![c] = "OSError"]
  /\ UNCHANGED <<fs, fs0, args, walk, copied, yielded>>

\* os.open / open: a descriptor of the process's own on the resource
FdOpen(p, from, to) ==
  /\ pc[p] = from
  /\ fdtab' = [fdtab EXCEPT ![p] = [open |-> TRUE, lock |-> "un"]]
  /\ pc' = [pc EXCEPT ![p] = to]
  /\ UNCHANGED <<queue, nlock>>

\* a faulty scope that swallows the exception of its body
FdCloseSwallows(p, from, to, failed) ==
  /\ pc[p] = from
  /\ fdtab' = [fdtab EXCEPT ![p] = [open |-> FALSE, lock |-> "un"]]
  /\ pc' = [pc EXCEPT ![p] = to]
  /\ UNCHANGED <<queue, nlock>>

\* os.close: closing the descriptor drops whatever flock it holds
FdClose(p, from, to, failed) ==
  /\ pc[p] = from
  /\ fdtab' = [fdtab EXCEPT ![p] = [open |-> FALSE, lock |-> "un"]]
  /\ pc' = [pc EXCEPT ![p] = IF err[p] = "none" THEN to ELSE failed]
  /\ UNCHANGED <<queue, nlock>>

\* a faulty entry whose flock does not wait (LOCK_NB, its failure ignored):
\* the scope is entered with or without the lock
FdLockEnterNoWait(p, exclusive, from, to) ==
  /\ pc[p] = from
  /\ fdtab' = [fdtab EXCEPT ![p].lock =
                 IF Grantable(fdtab, p, LockMode(exclusive)) THEN LockMode(exclusive) ELSE @]
  /\ nlock' = [nlock EXCEPT ![p].acq = @ + 1]
  /\ pc' = [pc EXCEPT ![p] = to]
  /\ UNCHANGED queue

\* fd_lock's entry: flock blocks until the lock can be granted
FdLockEnter(p, exclusive, from, to) ==
  /\ pc[p] = from
  /\ Grantable(fdtab, p, LockMode(exclusive))
  /\ fdtab' = [fdtab EXCEPT ![p].lock = LockMode(exclusive)]
  /\ nlock' = [nlock EXCEPT ![p].acq = @ + 1]
  /\ pc' = [pc EXCEPT ![p] = to]
  /\ UNCHANGED queue

\* a faulty exit that leaves the lock to the close of the descriptor
FdLockExitKeeps(p, from, to) ==
  /\ pc[p] = from
  /\ pc' = [pc EXCEPT ![p] = to]
  /\ UNCHANGED <<fdtab, queue, nlock>>

\* fd_lock's exit, by return or by an exception of the body
FdLockExit(p, from, to) ==
  /\ pc[p] = from
  /\ fdtab' = [fdtab EXCEPT ![p].lock = LockAfterExit(@, err[p] # "none")]
  /\ nlock' = [nlock EXCEPT ![p].rel = IF UnlocksOnExit(err[p] # "none") THEN @ + 1 ELSE @]
  /\ pc' = [pc EXCEPT ![p] = to]
  /\ UNCHANGED queue

\* the state of the processes before any of them has run
InitProcs ==
  /\ fs0 = fs
  /\ pc = [c \in Procs |-> "call"]
  /\ err = [c \in Procs |-> "none"]
  /\ walk = [c \in Procs |-> WalkFrom(<<>>)]
  /\ copied = [c \in Procs |-> <<>>]
  /\ yielded = [c \in Procs |-> <<>>]
  /\ fdtab = [c \in Procs |-> [open |-> FALSE, lock |-> "un"]]
  /\ queue = <<>>
  /\ nlock = [c \in Procs |-> [acq |-> 0, rel |-> 0]]
  /\ staged = [c \in Procs |-> [student_files |-> <<>>, script_files |-> <<>>, i |-> 1]]
  /\ hist = [c \in Procs |-> <<>>]

----------------------------------------------------------------------------
(* The calls of TestRecursiveIglob and TestCopyTree on generated trees *)

NoModes == [p \in {"p1", "p2"} |-> TRUE]

SrcRoot == <<"src">>
DstRoot == <<"dst">>

Orders == {<<"a", "b">>, <<"b", "a">>}

\* the arguments of the call under test
CallArgs == [src |-> args.src, dst |-> args.dst, exclude |-> args.exclude]

\* recursive_iglob(src) and recursive_iglob of the tree's entry a (a directory,
\* a file or absent); copy_tree(src, dst, exclude) with dst a directory of its
\* own; copy_tree(src, dst) with dst src itself or inside src; and copy_tree of
\* the tree's entry a into the tree's root
TreeCalls(t) ==
  {[op |-> "iglob", src |-> r, dst |-> DstRoot, exclude |-> {}]
     : r \in {SrcRoot, SrcRoot \o <<"a">>}}
  \cup {[op |-> "copy_tree", src |-> SrcRoot, dst |-> DstRoot, exclude |-> x]
         : x \in SUBSET {e[1] : e \in t}}
  \cup {[op |-> "copy_tree", src |-> SrcRoot, dst |-> d, exclude |-> {}]
         : d \in {SrcRoot, SrcRoot \o <<"a">>}}
  \cup {[op |-> "copy_tree", src |-> SrcRoot \o <<"a">>, dst |-> SrcRoot, exclude |-> {}]}

InitTree ==
  /\ \E t \in Trees, o \in Orders :
       \E call \in TreeCalls(t) :
         /\ fs = Place(SrcRoot, t, "src") @@ Place(DstRoot, {}, "dst")
         /\ args = [op |-> call.op, src |-> call.src, dst |-> call.dst,
                    exclude |-> call.exclude, ord |-> o, exclusive |-> NoModes]
  /\ InitProcs

CallIglob ==
  /\ args.op = "iglob"
  /\ IglobStart("c", args.src, "call", "iglob", "error")
  /\ UNCHANGED <<lockvars, stagevars>>

IglobLoop == IglobStep("c") /\ UNCHANGED <<lockvars, stagevars>>

CallCopyTree ==
  /\ args.op = "copy_tree"
  /\ IglobStart("c", args.src, "call", "copy_tree", "error")
  /\ UNCHANGED <<lockvars, stagevars>>

CopyTreeLoop ==
  /\ CopyTreeStep("c", CallArgs, "copy_tree", "done", "error")
  /\ UNCHANGED <<lockvars, stagevars>>

CopyTreeFails ==
  /\ CopyTreeIOError("c", "copy_tree", "error")
  /\ UNCHANGED <<lockvars, stagevars>>

NextTree == CallIglob \/ IglobLoop \/ CallCopyTree \/ CopyTreeLoop \/ CopyTreeFails

SpecTree == InitTree /\ [][NextTree]_vars

----------------------------------------------------------------------------
(* TestFDLock: locking_funt (process 1) and locked_funt (process 2) on one file *)

TestProcs == {"p1", "p2"}
Num(p) == IF p = "p1" THEN 1 ELSE 2

\* the pcs at which a process is inside fd_lock's scope
InScope == {"locked", "sleeping", "slept", "unlocking"}

Put(p, what, from, to) ==
  /\ pc[p] = from
  /\ queue' = Append(queue, <<Num(p), what>>)
  /\ pc' = [pc EXCEPT ![p] = to]
  /\ UNCHANGED <<fdtab, nlock>>

Sleep(p, from, to) ==
  /\ pc[p] = from
  /\ pc' = [pc EXCEPT ![p] = to]
  /\ UNCHANGED lockvars

treevars == <<fs, fs0, args, err, walk, copied, yielded, staged, hist>>

\* locked_funt sleeps a second before it opens the file
TestSleepFirst == Sleep("p2", "call", "awake") /\ UNCHANGED treevars

TestOpen(p) ==
  /\ FdOpen(p, IF p = "p1" THEN "call" ELSE "awake", "opened")
  /\ UNCHANGED treevars

TestPutStarting(p) == Put(p, "starting", "opened", "starting") /\ UNCHANGED treevars

TestLock(p) ==
  /\ FdLockEnter(p, args.exclusive[p], "starting", "locked")
  /\ UNCHANGED treevars

TestPutLocking(p) ==
  /\ Put(p, "locking", "locked", IF p = "p1" THEN "sleeping" ELSE "slept")
  /\ UNCHANGED treevars

\* locking_funt sleeps two seconds inside the scope
TestSleepInside == Sleep("p1", "sleeping", "slept") /\ UNCHANGED treevars

TestPutUnlocking(p) == Put(p, "unlocking", "slept", "unlocking") /\ UNCHANGED treevars

\* the body of the with statement raises
TestBodyRaises(p) ==
  /\ pc[p] \in {"locked", "sleeping", "slept"}
  /\ err' = [err EXCEPT ![p] = "Exception"]
  /\ pc' = [pc EXCEPT ![p] = "unlocking"]
  /\ UNCHANGED <<fs, fs0, args, walk, copied, yielded, staged, hist, lockvars>>

TestUnlock(p) == FdLockExit(p, "unlocking", "unlocked") /\ UNCHANGED treevars

TestClose(p) == FdClose(p, "unlocked", "done", "error") /\ UNCHANGED treevars

InitLock ==
  /\ \E m \in [TestProcs -> BOOLEAN] :
       args = [op |-> "fd_lock", src |-> SrcRoot, dst |-> DstRoot, exclude |-> {},
               ord |-> <<"a", "b">>, exclusive |-> m]
  /\ fs = Place(SrcRoot, {}, "src")
  /\ InitProcs

NextLock ==
  \/ TestSleepFirst
  \/ TestSleepInside
  \/ \E p \in TestProcs :
       \/ TestOpen(p)
       \/ TestPutStarting(p)
       \/ TestLock(p)
       \/ TestPutLocking(p)
       \/ TestPutUnlocking(p)
       \/ TestBodyRaises(p)
       \/ TestUnlock(p)
       \/ TestClose(p)

SpecLock == InitLock /\ [][NextLock]_vars

----------------------------------------------------------------------------
(* setup_files: the staging of one workspace, statement by statement *)

\* files_path and tests_path of a staging operation, and the shared
\* test_script_dir of the assignment
FilesPath(s) == IF s = "s1" THEN <<"files1">> ELSE <<"files2">>
\* a faulty layout in which every staging operation gets the same workspace
TestsPathShared(s) == <<"tests1">>
TestsPath(s) == IF s = "s1" THEN <<"tests1">> ELSE <<"tests2">>
ScriptDir == <<"scripts">>

\* a faulty call with the two paths swapped
MoveArgsSwapped(s) == [src |-> TestsPath(s), dst |-> FilesPath(s), exclude |-> {}]

\* move_tree(files_path, tests_path)
MoveArgs(s) == [src |-> FilesPath(s), dst |-> TestsPath(s), exclude |-> {}]
ScriptArgs(s) == [src |-> ScriptDir, dst |-> TestsPath(s), exclude |-> {}]

\* the modes setup_files sets
RootMode == Oct(1, 7, 7, 0)
StudentMode(kind) == IF kind = "d" THEN Oct(0, 7, 7, 7) ELSE Oct(0, 6, 6, 6)

\* a faulty mode table: script files left executable
ScriptModeKeepsExec(kind) == Oct(0, 7, 5, 5)

ScriptMode(kind) ==
  IF kind = "f" THEN Oct(0, 7, 5, 5) - Oct(0, 1, 1, 1) ELSE Oct(0, 7, 5, 5)

\* os.chmod
Chmod(f, p, m) ==
  IF p \notin DOMAIN f THEN Fail(f, "FileNotFoundError")
  ELSE Ok([f EXCEPT ![p].mode = m])

\* what the operating system may answer to a call of shutil.rmtree: nothing,
\* an entry that has vanished meanwhile, or a refusal
RmFaults == {"none", "FileNotFoundError", "PermissionError"}

\* a faulty handler that ignores every error
IgnoreEveryError(err_type) == TRUE

\* ignore_missing_dir_error: TRUE when the handler returns, FALSE when it
\* raises err_inst
IgnoreMissingDirError(err_type) == err_type = "FileNotFoundError"

\* the error shutil.rmtree(p) hands to its onerror handler, "none" if it has none:
\* an absent p, a p that is not a directory, or the fault of the operating system
RmtreeRaises(f, p, fault) ==
  IF p \notin DOMAIN f THEN "FileNotFoundError"
  ELSE IF IsFile(f, p) THEN "NotADirectoryError"
  ELSE fault

\* a faulty rmtree that empties p and leaves p itself
RmtreeLeavesRoot(f, p, fault, part) ==
  Ok([q \in {x \in DOMAIN f : ~IsPrefix(p, x) \/ x = p} |-> f[q]])

\* what rmtree may have deleted below p when it meets an error: entries with
\* all that is below them (it deletes the content of a directory first)
RmParts(f, p) ==
  {part \in SUBSET Below(f, p) :
     \A q \in part : \A x \in Below(f, p) : IsPrefix(q, x) => x \in part}

\* shutil.rmtree(p, onerror=ignore_missing_dir_error): p and all below it go;
\* an error the handler ignores lets the deletion go on, any other is raised
\* and leaves what was not yet deleted (all but part)
Rmtree(f, p, fault, part) ==
  LET raised == RmtreeRaises(f, p, fault)
      gone == [q \in {x \in DOMAIN f : ~IsPrefix(p, x)} |-> f[q]]
  IN IF raised = "none" \/ IgnoreMissingDirError(raised) THEN Ok(gone)
     ELSE Fail([q \in DOMAIN f \ part |-> f[q]], raised)

\* a different order of the statements: scripts are resolved before
\* any entry is stamped
PcAfterStampLast(stmt) ==
  CASE stmt = "chmod_root" -> "move_tree"
    [] stmt = "move_tree" -> "copy_scripts"
    [] stmt = "copy_scripts" -> "chmod_student"
    [] stmt = "chmod_student" -> "chmod_script"
    [] stmt = "chmod_script" -> "done"

\* the statements of setup_files in their order
PcAfter(stmt) ==
  CASE stmt = "chmod_root" -> "move_tree"
    [] stmt = "move_tree" -> "chmod_student"
    [] stmt = "chmod_student" -> "copy_scripts"
    [] stmt = "copy_scripts" -> "chmod_script"
    [] stmt = "chmod_script" -> "done"

\* ev noted in the history the first time it happens
Note(h, ev) == IF \E i \in 1..Len(h) : h[i] = ev THEN h ELSE Append(h, ev)

\* os.chmod(tests_path, 0o1770)
StageChmodRoot(s) ==
  /\ pc[s] = "call"
  /\ LET r == Chmod(fs, TestsPath(s), RootMode)
     IN /\ fs' = r.fs
        /\ err' = [err EXCEPT ![s] = r.exc]
        /\ pc' = [pc EXCEPT ![s] = IF r.ok THEN PcAfter("chmod_root") ELSE "error"]
        /\ hist' = [hist EXCEPT ![s] = IF r.ok THEN Note(@, "chmod_root") ELSE @]
  /\ UNCHANGED <<fs0, args, walk, copied, yielded, lockvars, staged>>

\* move_tree: os.makedirs(dst, exist_ok=True)
StageMoveMakedirs(s) ==
  /\ pc[s] = "move_tree"
  /\ LET r == Makedirs(fs, MoveArgs(s).dst)
     IN /\ fs' = r.fs
        /\ err' = [err EXCEPT ![s] = r.exc]
        /\ pc' = [pc EXCEPT ![s] = IF r.ok THEN "move_call" ELSE "error"]
  /\ UNCHANGED <<fs0, args, walk, copied, yielded, lockvars, stagevars>>

\* move_tree: copy_tree(src, dst)
StageMoveCall(s) ==
  /\ IglobStart(s, MoveArgs(s).src, "move_call", "move_copy", "error")
  /\ UNCHANGED <<lockvars, stagevars>>

StageMoveCopy(s) ==
  /\ CopyTreeStep(s, MoveArgs(s), "move_copy", "move_rmtree", "error")
  /\ UNCHANGED <<lockvars, stagevars>>

StageMoveCopyFails(s) ==
  /\ CopyTreeIOError(s, "move_copy", "error")
  /\ UNCHANGED <<lockvars, stagevars>>

\* move_tree: shutil.rmtree(src, ...) and the return of moved
StageMoveRmtree(s) ==
  /\ pc[s] = "move_rmtree"
  /\ \E fault \in RmFaults, part \in RmParts(fs, MoveArgs(s).src) :
       LET r == Rmtree(fs, MoveArgs(s).src, fault, part)
       IN /\ fs' = r.fs
          /\ err' = [err EXCEPT ![s] = r.exc]
          /\ pc' = [pc EXCEPT ![s] = IF r.ok THEN PcAfter("move_tree") ELSE "error"]
          /\ staged' = [staged EXCEPT ![s].student_files = IF r.ok THEN copied[s] ELSE @,
                                      ![s].i = 1]
          /\ hist' = [hist EXCEPT ![s] = IF r.ok THEN Note(@, "moved") ELSE @]
  /\ UNCHANGED <<fs0, args, walk, copied, yielded, lockvars>>

\* the mode a chmod loop gives an entry of kind kind
ModeIn(stmt, kind) ==
  IF stmt = "chmod_student" THEN StudentMode(kind) ELSE ScriptMode(kind)

\* one iteration of a chmod loop over record rec, or its end
ChmodLoop(s, stmt, rec) ==
  /\ pc[s] = stmt
  /\ IF staged[s].i > Len(rec)
       THEN /\ pc' = [pc EXCEPT ![s] = PcAfter(stmt)]
            /\ staged' = [staged EXCEPT ![s].i = 1]
            /\ UNCHANGED <<fs, err, hist>>
       ELSE LET e == rec[staged[s].i]
                r == Chmod(fs, e[2], ModeIn(stmt, e[1]))
            IN /\ fs' = r.fs
               /\ err' = [err EXCEPT ![s] = r.exc]
               /\ pc' = [pc EXCEPT ![s] = IF r.ok THEN stmt ELSE "error"]
               /\ staged' = [staged EXCEPT ![s].i = @ + 1]
               /\ hist' = [hist EXCEPT ![s] = IF r.ok THEN Note(@, stmt) ELSE @]
  /\ UNCHANGED <<fs0, args, walk, copied, yielded, lockvars>>

\* for fd, file_or_dir in student_files: os.chmod(...)
StageChmodStudent(s) == ChmodLoop(s, "chmod_student", staged[s].student_files)

\* for fd, file_or_dir in script_files: os.chmod(...)
StageChmodScript(s) == ChmodLoop(s, "chmod_script", staged[s].script_files)

\* a faulty copy_test_script_files without the isdir test
StageScriptsNoIsdir(s) ==
  /\ pc[s] = "copy_scripts"
  /\ pc' = [pc EXCEPT ![s] = "scripts_open"]
  /\ UNCHANGED <<fs, fs0, args, err, walk, copied, yielded, lockvars, staged, hist>>

\* copy_test_script_files: os.path.isdir(test_script_dir), and return [] if not
StageScriptsIsdir(s) ==
  /\ pc[s] = "copy_scripts"
  /\ IF IsDir(fs, ScriptDir)
       THEN /\ pc' = [pc EXCEPT ![s] = "scripts_open"]
            /\ UNCHANGED <<staged, hist>>
       ELSE /\ pc' = [pc EXCEPT ![s] = PcAfter("copy_scripts")]
            /\ staged' = [staged EXCEPT ![s].script_files = <<>>, ![s].i = 1]
            /\ hist' = [hist EXCEPT ![s] = Note(@, "resolved")]
  /\ UNCHANGED <<fs, fs0, args, err, walk, copied, yielded, lockvars>>

\* with fd_open(test_script_dir) as fd
StageScriptsOpen(s) ==
  /\ FdOpen(s, "scripts_open", "scripts_lock")
  /\ UNCHANGED <<treevars>>

\* with fd_lock(fd, exclusive=False)
StageScriptsLock(s) ==
  /\ FdLockEnter(s, FALSE, "scripts_lock", "scripts_call")
  /\ UNCHANGED <<treevars>>

\* flock fails: the exception leaves fd_open's scope, which closes fd
StageScriptsLockFails(s) ==
  /\ pc[s] = "scripts_lock"
  /\ err' = [err EXCEPT ![s] = "OSError"]
  /\ pc' = [pc EXCEPT ![s] = "scripts_close"]
  /\ UNCHANGED <<fs, fs0, args, walk, copied, yielded, lockvars, stagevars>>

\* copy_tree(test_script_dir, tests_path) inside the two scopes
StageScriptsCall(s) ==
  /\ IglobStart(s, ScriptDir, "scripts_call", "scripts_copy", "scripts_unlock")
  /\ UNCHANGED <<lockvars, stagevars>>

StageScriptsCopy(s) ==
  /\ CopyTreeStep(s, ScriptArgs(s), "scripts_copy", "scripts_unlock", "scripts_unlock")
  /\ UNCHANGED <<lockvars, stagevars>>

StageScriptsCopyFails(s) ==
  /\ CopyTreeIOError(s, "scripts_copy", "scripts_unlock")
  /\ UNCHANGED <<lockvars, stagevars>>

\* fd_lock's finally
StageScriptsUnlock(s) ==
  /\ FdLockExit(s, "scripts_unlock", "scripts_close")
  /\ UNCHANGED <<treevars>>

\* fd_open's finally, then the return of the copied list or the exception
StageScriptsClose(s) ==
  /\ FdClose(s, "scripts_close", PcAfter("copy_scripts"), "error")
  /\ staged' = [staged EXCEPT ![s].script_files = IF err[s] = "none" THEN copied[s] ELSE @,
                              ![s].i = 1]
  /\ hist' = [hist EXCEPT ![s] = IF err[s] = "none" THEN Note(@, "resolved") ELSE @]
  /\ UNCHANGED <<fs, fs0, args, err, walk, copied, yielded>>

\* a chmod, a makedirs or an open fails in the operating system
StageOSError(s) ==
  /\ \/ pc[s] \in {"call", "move_tree", "scripts_open"}
     \/ pc[s] = "chmod_student" /\ staged[s].i <= Len(staged[s].student_files)
     \/ pc[s] = "chmod_script" /\ staged[s].i <= Len(staged[s].script_files)
  /\ err' = [err EXCEPT ![s] = "OSError"]
  /\ pc' = [pc EXCEPT ![s] = "error"]
  /\ UNCHANGED <<fs, fs0, args, walk, copied, yielded, lockvars, stagevars>>

Stage(s) ==
  \/ StageChmodRoot(s)
  \/ StageMoveMakedirs(s)
  \/ StageMoveCall(s)
  \/ StageMoveCopy(s)
  \/ StageMoveCopyFails(s)
  \/ StageMoveRmtree(s)
  \/ StageChmodStudent(s)
  \/ StageScriptsIsdir(s)
  \/ StageScriptsOpen(s)
  \/ StageScriptsLock(s)
  \/ StageScriptsLockFails(s)
  \/ StageScriptsCall(s)
  \/ StageScriptsCopy(s)
  \/ StageScriptsCopyFails(s)
  \/ StageScriptsUnlock(s)
  \/ StageScriptsClose(s)
  \/ StageChmodScript(s)
  \/ StageOSError(s)

\* most entries of a submission tree and of a script tree
MaxStageEntries == 2

StageTrees == UNION {TreesOfSize(k) : k \in 0..MaxStageEntries}

\* the filesystem before staging: the submission, the empty workspace the
\* caller made, and the script directory when there is one
StageFs(s, student) == Place(FilesPath(s), student, "student") @@ Place(TestsPath(s), {}, "-")
Scripts(t) == Place(ScriptDir, t, "script1")

\* a file where the script directory would be
NotAScriptDir == ScriptDir :> FileEntry(InitFileMode, [tag |-> "script1", rel |-> <<>>])

StageArgs(o) ==
  [op |-> "setup_files", src |-> SrcRoot, dst |-> DstRoot, exclude |-> {},
   ord |-> o, exclusive |-> NoModes]

\* one staging operation, on any submission tree and any script directory
Init ==
  /\ \E student \in StageTrees, o \in Orders :
       /\ args = StageArgs(o)
       /\ \/ fs = StageFs("s1", student)
          \/ fs = StageFs("s1", student) @@ NotAScriptDir
          \/ \E t \in StageTrees : fs = StageFs("s1", student) @@ Scripts(t)
  /\ InitProcs

Next == Stage("s1")

Spec == Init /\ [][Next]_vars

----------------------------------------------------------------------------
(* A staging operation beside a writer of the shared script directory.  The *)
(* writer takes the exclusive lock, as writers of the script tree must, and *)
(* rewrites the script files one by one.                                    *)

WriterOpen ==
  /\ IsDir(fs, ScriptDir)
  /\ FdOpen("w", "call", "w_lock")
  /\ UNCHANGED treevars

WriterLock ==
  /\ FdLockEnter("w", TRUE, "w_lock", "w_write")
  /\ UNCHANGED treevars

\* the script files not yet rewritten
Stale(f) == {p \in Below(f, ScriptDir) : IsFile(f, p) /\ f[p].data.tag = "script1"}

WriterWrite ==
  /\ pc["w"] = "w_write"
  /\ \E p \in Stale(fs) : fs' = [fs EXCEPT ![p].data.tag = "script2"]
  /\ UNCHANGED <<fs0, args, pc, err, walk, copied, yielded, lockvars, stagevars>>

WriterUnlock ==
  /\ Stale(fs) = {}
  /\ FdLockExit("w", "w_write", "w_close")
  /\ UNCHANGED treevars

WriterClose ==
  /\ FdClose("w", "w_close", "done", "error")
  /\ UNCHANGED treevars

Writer == WriterOpen \/ WriterLock \/ WriterWrite \/ WriterUnlock \/ WriterClose

\* the submission trees of the concurrent runs: empty, or one entry
SmallTrees == TreesOfSize(0) \cup TreesOfSize(1)

InitConc ==
  /\ \E student \in SmallTrees, t \in StageTrees, o \in Orders :
       /\ args = StageArgs(o)
       /\ fs = StageFs("s1", student) @@ Scripts(t)
  /\ InitProcs

NextConc == Stage("s1") \/ Writer

SpecConc == InitConc /\ [][NextConc]_vars

----------------------------------------------------------------------------
(* move_tree and shutil.rmtree with ignore_missing_dir_error, called on      *)
(* generated trees: into a directory of its own (absent, empty or holding    *)
(* entries already), and with src and dst the same or one inside the other   *)

\* one call of shutil.rmtree(p, onerror=ignore_missing_dir_error); what was
\* handed to the handler and what the call raised are noted in hist
RmtreeStep(c, p, from, to, failed) ==
  /\ pc[c] = from
  /\ \E fault \in RmFaults, part \in RmParts(fs, p) :
       LET r == Rmtree(fs, p, fault, part)
       IN /\ fs' = r.fs
          /\ err' = [err EXCEPT ![c] = r.exc]
          /\ pc' = [pc EXCEPT ![c] = IF r.ok THEN to ELSE failed]
          /\ hist' = [hist EXCEPT ![c] =
                        Append(@, [handed |-> RmtreeRaises(fs, p, fault), raised |-> r.exc])]
  /\ UNCHANGED <<fs0, args, walk, copied, yielded, lockvars, staged>>

\* move_tree: os.makedirs(dst, exist_ok=True)
MoveMakedirs ==
  /\ args.op = "move_tree"
  /\ pc["c"] = "call"
  /\ LET r == Makedirs(fs, args.dst)
     IN /\ fs' = r.fs
        /\ err' = [err EXCEPT !["c"] = r.exc]
        /\ pc' = [pc EXCEPT !["c"] = IF r.ok THEN "move_call" ELSE "error"]
  /\ UNCHANGED <<fs0, args, walk, copied, yielded, lockvars, stagevars>>

\* move_tree: moved = copy_tree(src, dst)
MoveCall ==
  /\ IglobStart("c", args.src, "move_call", "move_copy", "error")
  /\ UNCHANGED <<lockvars, stagevars>>

MoveCopy ==
  /\ CopyTreeStep("c", CallArgs, "move_copy", "move_rmtree", "error")
  /\ UNCHANGED <<lockvars, stagevars>>

MoveCopyFails ==
  /\ CopyTreeIOError("c", "move_copy", "error")
  /\ UNCHANGED <<lockvars, stagevars>>

\* move_tree: shutil.rmtree(src, onerror=ignore_missing_dir_error); return moved
MoveRmtree ==
  /\ args.op = "move_tree"
  /\ RmtreeStep("c", args.src, "move_rmtree", "done", "error")

\* TestIgnoreMissingDirError: shutil.rmtree of the same path, twice in sequence
RmtreeFirst ==
  /\ args.op = "rmtree"
  /\ RmtreeStep("c", args.src, "call", "rm_again", "error")

RmtreeSecond ==
  /\ args.op = "rmtree"
  /\ RmtreeStep("c", args.src, "rm_again", "done", "error")

\* the entries dst holds before a move: none, or one
DstTrees == SmallTrees

\* move_tree(src, dst) with dst a directory of its own, src itself or inside
\* src; move_tree of the tree's entry a into the tree's root; and the double
\* rmtree of the root or of its entry a (a directory, a file or absent)
MoveCalls ==
  {[op |-> "move_tree", src |-> SrcRoot, dst |-> d]
     : d \in {DstRoot, SrcRoot, SrcRoot \o <<"a">>}}
  \cup {[op |-> "move_tree", src |-> SrcRoot \o <<"a">>, dst |-> SrcRoot]}
  \cup {[op |-> "rmtree", src |-> r, dst |-> DstRoot] : r \in {SrcRoot, SrcRoot \o <<"a">>}}

InitMove ==
  /\ \E t \in StageTrees, o \in Orders, call \in MoveCalls :
       /\ args = [op |-> call.op, src |-> call.src, dst |-> call.dst,
                  exclude |-> {}, ord |-> o, exclusive |-> NoModes]
       /\ \/ fs = Place(SrcRoot, t, "src")
          \/ \E d \in DstTrees : fs = Place(SrcRoot, t, "src") @@ Place(DstRoot, d, "dst")
  /\ InitProcs

NextMove ==
  \/ MoveMakedirs
  \/ MoveCall
  \/ MoveCopy
  \/ MoveCopyFails
  \/ MoveRmtree
  \/ RmtreeFirst
  \/ RmtreeSecond

SpecMove == InitMove /\ [][NextMove]_vars

----------------------------------------------------------------------------
(* Claims about fd_lock, checked under SpecLock *)

\* inside fd_lock's scope: between the return of flock and the unlock
InCS(p) == pc[p] \in InScope
\* the scope has been left
LeftScope(p) == pc[p] \in {"unlocked", "done", "error"}

\* the positions of an event in the queue
At(ev) == {i \in 1..Len(queue) : queue[i] = ev}

\* p's whole critical section precedes q's entry, as the queue shows it
Serialized(p, q) ==
  \A i \in At(<<Num(p), "locking">>), j \in At(<<Num(q), "locking">>) :
    (i < j /\ err[p] = "none") =>
      \E k \in At(<<Num(p), "unlocking">>) : i < k /\ k < j

BlockingBehaviour ==
  << <<1, "starting">>, <<1, "locking">>, <<2, "starting">>,
     <<1, "unlocking">>, <<2, "locking">>, <<2, "unlocking">> >>

NonBlockingBehaviour ==
  << <<1, "starting">>, <<1, "locking">>, <<2, "starting">>,
     <<2, "locking">>, <<2, "unlocking">>, <<1, "unlocking">> >>

\* C1: when at least one of two acquirers is exclusive they are never inside
\* their critical sections together, no exclusive lock coexists with another
\* lock, and the one that locks second does so after the first has unlocked.
C1_ExclusiveSerializes ==
  \A p \in TestProcs : \A q \in TestProcs \ {p} :
    /\ fdtab[p].lock = "ex" => fdtab[q].lock = "un"
    /\ (args.exclusive[p] \/ args.exclusive[q]) =>
         /\ ~(InCS(p) /\ InCS(q))
         /\ Serialized(p, q)

\* C1 witness: the test's blocking behaviour, with an exclusive acquirer
C1_Witness ==
  /\ queue = BlockingBehaviour
  /\ args.exclusive["p1"] \/ args.exclusive["p2"]
  /\ nlock["p1"].rel = 1 /\ nlock["p2"].acq = 1

\* C2: while one process holds a shared lock, a shared request of the other
\* is granted at once: its flock is enabled, it does not wait for the release.
C2_SharedDoNotSerialize ==
  \A p \in TestProcs : \A q \in TestProcs \ {p} :
    (InCS(p) /\ ~args.exclusive[p] /\ ~args.exclusive[q] /\ pc[q] = "starting")
      => ENABLED TestLock(q)

\* C2 witness: process 2 has entered and left while process 1 is still inside
C2_Witness ==
  /\ queue = SubSeq(NonBlockingBehaviour, 1, 5)
  /\ InCS("p1") /\ fdtab["p1"].lock = "sh"
  /\ LeftScope("p2") /\ nlock["p2"] = [acq |-> 1, rel |-> 1]

\* C4: once the scope is left, by return or by an exception, the descriptor
\* holds no lock and the acquisition has been released once; inside the scope
\* it is held and not yet released; and a waiting acquirer whose only
\* obstacle was that scope can be granted the lock.
C4_ReleasedOnEveryExit ==
  \A p \in TestProcs : \A q \in TestProcs \ {p} :
    /\ LeftScope(p) => (fdtab[p].lock = "un" /\ nlock[p] = [acq |-> 1, rel |-> 1])
    /\ InCS(p) => (fdtab[p].lock = LockMode(args.exclusive[p])
                    /\ nlock[p] = [acq |-> 1, rel |-> 0])
    /\ (LeftScope(p) /\ pc[q] = "starting") => ENABLED TestLock(q)

\* C4 witness: the scope was left by an exception, and an exclusive
\* acquirer that was waiting for it can now enter
C4_Witness ==
  /\ err["p1"] = "Exception" /\ pc["p1"] = "unlocked"
  /\ args.exclusive["p1"] /\ args.exclusive["p2"]
  /\ pc["p2"] = "starting"
  /\ queue = << <<1, "starting">>, <<1, "locking">>, <<2, "starting">> >>

----------------------------------------------------------------------------
(* Claims about recursive_iglob and copy_tree, checked under SpecTree *)

Paths(seq) == {seq[i][2] : i \in 1..Len(seq)}
NoRepeat(seq) == \A i \in 1..Len(seq), j \in 1..Len(seq) : seq[i][2] = seq[j][2] => i = j
\* every entry's parent is the root or comes earlier in the sequence
ParentFirst(seq, root) ==
  \A i \in 1..Len(seq) :
    Parent(seq[i][2]) = root \/ \E j \in 1..(i - 1) : seq[j][2] = Parent(seq[i][2])

CopyDone == args.op = "copy_tree" /\ pc["c"] = "done"
\* src and dst are apart: neither is the other or lies inside it
Apart(a, b) == ~IsPrefix(a, b) /\ ~IsPrefix(b, a)

\* C7 (as claimed): no path of exclude exists under dst after copy_tree.
C7_ExcludedNeverUnderDst ==
  (CopyDone /\ args.dst = DstRoot) =>
    \A x \in args.exclude : args.dst \o x \notin DOMAIN fs

\* C8 (as claimed): on return copied is exactly what the call created under
\* dst, each entry once with its source's kind, a directory before what is in it.
C8_RecordIsWhatWasCreated ==
  (CopyDone /\ args.dst = DstRoot) =>
    /\ Paths(copied["c"]) = Below(fs, args.dst) \ Below(fs0, args.dst)
    /\ NoRepeat(copied["c"])
    /\ ParentFirst(copied["c"], args.dst)
    /\ \A i \in 1..Len(copied["c"]) :
         /\ fs[copied["c"][i][2]].kind = copied["c"][i][1]
         /\ fs0[args.src \o RelPath(copied["c"][i][2], args.dst)].kind = copied["c"][i][1]

\* C9: recursive_iglob never yields the root nor an entry twice, yields an
\* entry after its parent directory, with its kind, and by its end has
\* yielded every directory and file below the root.
C9_IglobYieldsAllOnceParentFirst ==
  args.op = "iglob" =>
    /\ NoRepeat(yielded["c"])
    /\ ParentFirst(yielded["c"], args.src)
    /\ Paths(yielded["c"]) \subseteq Below(fs, args.src)
    /\ \A i \in 1..Len(yielded["c"]) : fs[yielded["c"][i][2]].kind = yielded["c"][i][1]
    /\ pc["c"] = "done" => Paths(yielded["c"]) = Below(fs, args.src)

\* C9 witness: a walk that ended after yielding a tree three levels deep
C9_Witness ==
  /\ args.op = "iglob" /\ pc["c"] = "done"
  /\ Len(yielded["c"]) = 4
  /\ \E i \in 1..4 : Len(RelPath(yielded["c"][i][2], args.src)) = 3
  /\ \E i \in 1..4 : yielded["c"][i][1] = "f"

\* C10 (as claimed): whatever src, dst and exclude, the tree below src is at
\* every step of copy_tree what it was before the call.
C10_SourceUnchanged ==
  args.op = "copy_tree" => TreeAt(fs, args.src) = TreeAt(fs0, args.src)

\* C10 (amended): when neither of src and dst is the other or inside it, the
\* tree below src (entries, kinds, file data) is at every step of copy_tree,
\* also after a failure, what it was before the call.
C10_SourceUnchangedWhenApart ==
  (args.op = "copy_tree" /\ Apart(args.src, args.dst)) =>
    /\ TreeAt(fs, args.src) = TreeAt(fs0, args.src)
    /\ \A p \in DOMAIN fs0 : IsPrefix(args.src, p) => (p \in DOMAIN fs /\ fs[p] = fs0[p])

\* C10 witness: a copy into a directory of its own failed after copying files
C10_Witness ==
  /\ args.op = "copy_tree" /\ Apart(args.src, args.dst)
  /\ pc["c"] = "error"
  /\ \E i \in 1..Len(copied["c"]) : copied["c"][i][1] = "f"

----------------------------------------------------------------------------
(* Claims about setup_files, checked under Spec *)

StageDone(s) == pc[s] = "done"
StudentPaths(s) == Paths(staged[s].student_files)
ScriptPaths(s) == Paths(staged[s].script_files)

\* C5 (as claimed): after setup_files every student path has 0777 or 0666
\* by its kind, every script path 0755 or 0644, the workspace root 01770,
\* whatever paths the two trees share.
C5_ModesAsClaimed ==
  StageDone("s1") =>
    /\ fs[TestsPath("s1")].mode = Oct(1, 7, 7, 0)
    /\ \A p \in StudentPaths("s1") :
         fs[p].mode = IF fs[p].kind = "d" THEN Oct(0, 7, 7, 7) ELSE Oct(0, 6, 6, 6)
    /\ \A p \in ScriptPaths("s1") :
         fs[p].mode = IF fs[p].kind = "d" THEN Oct(0, 7, 5, 5) ELSE Oct(0, 6, 4, 4)

\* a student path the copy of the scripts wrote neither an entry nor data to
StudentKept(s, p) ==
  /\ p \notin ScriptPaths(s)
  /\ IsFile(fs, p) => fs[p].data.tag = "student"

\* C5 (amended): after setup_files the workspace root has 01770, every path
\* of the script record has 0755 when recorded as a directory and 0644 when
\* recorded as a file, and every path of the student record that the copy of
\* the scripts did not write to has 0777 (directory) or 0666 (file).
C5_ModesScriptsWin ==
  StageDone("s1") =>
    /\ fs[TestsPath("s1")].mode = Oct(1, 7, 7, 0)
    /\ \A i \in 1..Len(staged["s1"].script_files) :
         LET e == staged["s1"].script_files[i]
         IN fs[e[2]].mode = IF e[1] = "d" THEN Oct(0, 7, 5, 5) ELSE Oct(0, 6, 4, 4)
    /\ \A i \in 1..Len(staged["s1"].student_files) :
         LET e == staged["s1"].student_files[i]
         IN StudentKept("s1", e[2]) =>
              /\ fs[e[2]].kind = e[1]
              /\ fs[e[2]].mode = IF e[1] = "d" THEN Oct(0, 7, 7, 7) ELSE Oct(0, 6, 6, 6)

\* C5 witness: staging is done with a student file and a student directory
\* kept, a script file and a script directory, and a path both trees have
C5_Witness ==
  /\ StageDone("s1")
  /\ StudentPaths("s1") \cap ScriptPaths("s1") # {}
  /\ \E p \in StudentPaths("s1") : StudentKept("s1", p) /\ IsFile(fs, p)
  /\ \E i \in 1..Len(staged["s1"].script_files) : staged["s1"].script_files[i][1] = "f"

Stamps == {"chmod_root", "chmod_student", "chmod_script"}
Before(h, a, b) ==
  \A j \in 1..Len(h) : h[j] = b => \E i \in 1..(j - 1) : h[i] = a

----------------------------------------------------------------------------
(* Claims about staging beside a writer, checked under SpecConc *)

\* the reader is between the grant of its shared lock and its release
ReaderInScope(s) == pc[s] \in {"scripts_call", "scripts_copy", "scripts_unlock"}
\* the writer is between the grant of its exclusive lock and its release
WriterInScope == pc["w"] = "w_write"

\* the versions of the script files found in the workspace
CopiedVersions(s) ==
  {fs[p].data.tag : p \in {q \in Below(fs, TestsPath(s)) :
                             IsFile(fs, q) /\ fs[q].data.tag \in {"script1", "script2"}}}

\* C3: no step of the reader's copy of the script tree falls inside the
\* writer's critical section, and what the reader copied is the tree before
\* or after the writer's rewrite, never a mixture.
C3_ReaderNeverSeesHalfWritten ==
  /\ ReaderInScope("s1") => ~WriterInScope
  /\ ReaderInScope("s1") => (fdtab["s1"].lock = "sh" /\ fdtab["w"].lock # "ex")
  /\ Cardinality(CopiedVersions("s1")) <= 1

\* C3 witness: the writer has rewritten one of two script files and the
\* reader, its descriptor open, waits for the shared lock
C3_Witness ==
  /\ WriterInScope /\ Stale(fs) # {}
  /\ \E p \in Below(fs, ScriptDir) : IsFile(fs, p) /\ fs[p].data.tag = "script2"
  /\ pc["s1"] = "scripts_lock" /\ fdtab["s1"].open
  /\ ~ENABLED StageScriptsLock("s1")

----------------------------------------------------------------------------
(* Claims about move_tree and tree deletion, checked under SpecMove *)

MoveDone == args.op = "move_tree" /\ pc["c"] = "done"

\* C11 (as claimed): after a successful move_tree(src, dst), the tree below
\* dst is the tree that was below src before the move (relative paths, kinds,
\* file contents) and src no longer exists.
C11_DstIsExactlySrc ==
  MoveDone =>
    /\ TreeAt(fs, args.dst) = TreeAt(fs0, args.src)
    /\ args.src \notin DOMAIN fs

\* C11 (amended): after a successful move_tree(src, dst) with neither of src
\* and dst the other or inside it, src and all below it no longer exist, dst
\* is a directory, every entry that dst or any other place held before is
\* still there with its kind, and when dst was absent or empty before the
\* move the tree below dst is the tree that was below src.
C11_MoveIntoEmptyDst ==
  (MoveDone /\ Apart(args.src, args.dst)) =>
    /\ \A p \in DOMAIN fs : ~IsPrefix(args.src, p)
    /\ IsDir(fs, args.dst)
    /\ \A p \in DOMAIN fs0 :
         ~IsPrefix(args.src, p) => (p \in DOMAIN fs /\ fs[p].kind = fs0[p].kind)
    /\ Below(fs0, args.dst) = {} => TreeAt(fs, args.dst) = TreeAt(fs0, args.src)

\* C11 witness: a move of a directory and a file in it into an absent dst
C11_Witness ==
  /\ MoveDone /\ args.dst = DstRoot /\ DstRoot \notin DOMAIN fs0
  /\ Cardinality(Below(fs, DstRoot)) = 2
  /\ \E p \in Below(fs, DstRoot) : Len(p) = 3 /\ IsFile(fs, p) /\ fs[p].data.tag = "src"

\* the calls of shutil.rmtree made so far, as noted by RmtreeStep
RmCalls == hist["c"]

\* C13: a call of rmtree with ignore_missing_dir_error raises nothing when it
\* meets no error or only path-not-found, and then leaves the path absent;
\* it raises any other error it meets, unchanged; so deleting an absent tree,
\* or the same tree a second time, never fails.
C13_OnlyMissingIsTolerated ==
  /\ \A i \in 1..Len(RmCalls) :
       /\ RmCalls[i].handed \in {"none", "FileNotFoundError"} => RmCalls[i].raised = "none"
       /\ RmCalls[i].handed \notin {"none", "FileNotFoundError"} =>
            RmCalls[i].raised = RmCalls[i].handed
  /\ (RmCalls # <<>> /\ RmCalls[Len(RmCalls)].raised = "none") =>
       \A p \in DOMAIN fs : ~IsPrefix(args.src, p)
  /\ (args.op = "rmtree" /\ args.src \notin DOMAIN fs0) => pc["c"] # "error"
  /\ Len(RmCalls) = 2 => (RmCalls[2].raised = "none" /\ pc["c"] = "done")

\* C13 witness: a tree with entries was deleted, and deleted a second time
C13_Witness ==
  /\ args.op = "rmtree" /\ pc["c"] = "done"
  /\ Below(fs0, args.src) # {}
  /\ Len(RmCalls) = 2
  /\ RmCalls[1].handed = "none" /\ RmCalls[2].handed = "FileNotFoundError"

\* C13 witness of the other half: a deletion refused by the operating system
\* was raised to the caller
C13_WitnessRaised ==
  /\ args.op = "rmtree" /\ pc["c"] = "error"
  /\ RmCalls[1].raised = "PermissionError"

----------------------------------------------------------------------------
(* Claims about what staging deletes and how it fails, checked under Spec *)

\* the submission is as it was before staging
SourceIntact(s) ==
  \A p \in DOMAIN fs0 : IsPrefix(FilesPath(s), p) => (p \in DOMAIN fs /\ fs[p] = fs0[p])

\* every entry of the submission has its copy in the workspace
AllCopied(s) ==
  \A p \in Below(fs0, FilesPath(s)) : TestsPath(s) \o RelPath(p, FilesPath(s)) \in DOMAIN fs

\* C12: whatever existed before staging outside the submission source exists
\* at every step, the workspace directory among it; and the source is touched
\* only once every entry of it has its copy in the workspace, so that a copy
\* that failed part-way leaves the source as it was.
C12_OnlySourceDeletedAfterCopy ==
  /\ \A p \in DOMAIN fs0 : ~IsPrefix(FilesPath("s1"), p) => p \in DOMAIN fs
  /\ IsDir(fs, TestsPath("s1"))
  /\ ~SourceIntact("s1") => AllCopied("s1")
  /\ (pc["s1"] = "error" /\ ~AllCopied("s1")) => SourceIntact("s1")
  /\ pc["s1"] \in {"call", "move_tree", "move_call", "move_copy", "move_rmtree"}
       => SourceIntact("s1")

\* C12 witness: the copy of a submission of two entries failed after the
\* first was copied, and the submission is as it was
C12_Witness ==
  /\ pc["s1"] = "error" /\ hist["s1"] = <<"chmod_root">>
  /\ Len(copied["s1"]) = 1
  /\ Cardinality(Below(fs0, FilesPath("s1"))) = 2
  /\ SourceIntact("s1") /\ ~AllCopied("s1")

\* C12 witness of the deletion: staging is done, the submission of two
\* entries is gone and the workspace holds both
C12_WitnessDeleted ==
  /\ StageDone("s1")
  /\ Cardinality(Below(fs0, FilesPath("s1"))) = 2
  /\ FilesPath("s1") \notin DOMAIN fs
  /\ AllCopied("s1")

\* a statement of setup_files has raised
Failed(s) == err[s] # "none"

\* C14: once a statement of setup_files has raised, the filesystem is left as
\* it is, no further step of staging is noted, the exception stays the one
\* raised, and control only leaves the scopes still open and ends in error;
\* setup_files returns only when nothing was raised.
C14_AbortsOnFirstFailure ==
  [][/\ Failed("s1") =>
          /\ fs' = fs
          /\ hist' = hist /\ staged'["s1"].student_files = staged["s1"].student_files
          /\ err' = err
          /\ pc'["s1"] \in {"scripts_unlock", "scripts_close", "error"}
     /\ pc'["s1"] = "done" => ~Failed("s1")'
     /\ pc'["s1"] = "error" => Failed("s1")']_vars

\* C14 witness: the copy of the scripts failed on a student file named like
\* a script directory; the move and the student modes stand, staging ended
C14_Witness ==
  /\ pc["s1"] = "error" /\ err["s1"] = "FileExistsError"
  /\ hist["s1"] = <<"chmod_root", "moved", "chmod_student">>
  /\ FilesPath("s1") \notin DOMAIN fs
  /\ \E p \in StudentPaths("s1") : IsFile(fs, p) /\ fs[p].mode = Oct(0, 6, 6, 6)
  /\ ~fdtab["s1"].open

\* the pcs of copy_test_script_files between os.open and os.close
ScriptScope == {"scripts_open", "scripts_lock", "scripts_call", "scripts_copy",
                "scripts_unlock", "scripts_close"}

\* C15: when test_script_dir is not a directory, staging never opens or locks
\* anything, and when it is done the script record is empty, the submission
\* is gone, and the workspace holds exactly the submission's entries, each
\* under its relative path with its kind and contents and the student mode.
C15_NoScriptDirectory ==
  ~IsDir(fs0, ScriptDir) =>
    /\ pc["s1"] \notin ScriptScope
    /\ ~fdtab["s1"].open /\ nlock["s1"] = [acq |-> 0, rel |-> 0]
    /\ ScriptDir \in DOMAIN fs0 => (ScriptDir \in DOMAIN fs /\ fs[ScriptDir] = fs0[ScriptDir])
    /\ StageDone("s1") =>
         /\ staged["s1"].script_files = <<>>
         /\ \A p \in DOMAIN fs : ~IsPrefix(FilesPath("s1"), p)
         /\ TreeAt(fs, TestsPath("s1")) = TreeAt(fs0, FilesPath("s1"))
         /\ \A p \in Below(fs, TestsPath("s1")) : fs[p].mode = StudentMode(fs[p].kind)
         /\ Paths(staged["s1"].student_files) = Below(fs, TestsPath("s1"))

\* C15 witness: a submission of a directory and a file in it was staged
\* where no script directory exists
C15_Witness ==
  /\ ScriptDir \notin DOMAIN fs0 /\ StageDone("s1")
  /\ \E p \in Below(fs, TestsPath("s1")) :
       /\ Len(p) = 3 /\ IsFile(fs, p) /\ fs[p].mode = Oct(0, 6, 6, 6)
       /\ fs[Parent(p)].mode = Oct(0, 7, 7, 7)
  /\ hist["s1"] = <<"chmod_root", "moved", "chmod_student", "resolved">>

----------------------------------------------------------------------------
(* Further claims about recursive_iglob and copy_tree, checked under SpecTree *)

\* the kinds of the tree below r, by relative path
KindsAt(f, r) == [q \in DOMAIN TreeAt(f, r) |-> TreeAt(f, r)[q].kind]

\* C16: after copy_tree(src, dst) with nothing excluded into an empty dst,
\* the relative paths below dst are those below src, each of the same kind:
\* every directory, the empty ones too, and every file.
C16_SameEntriesAndKinds ==
  (CopyDone /\ args.dst = DstRoot /\ args.exclude = {}) =>
    /\ Below(fs0, args.dst) = {}
    /\ KindsAt(fs, args.dst) = KindsAt(fs0, args.src)
    /\ KindsAt(fs, args.src) = KindsAt(fs0, args.src)

\* C16 witness: a tree with an empty directory and a file two levels down
\* was copied
C16_Witness ==
  /\ CopyDone /\ args.dst = DstRoot /\ args.exclude = {}
  /\ \E p \in Below(fs, DstRoot) : IsDir(fs, p) /\ Below(fs, p) = {}
  /\ \E p \in Below(fs, DstRoot) : IsFile(fs, p) /\ Len(p) = 3 /\ fs[p].data.tag = "src"

\* the places of path p in a sequence of entries
Where(seq, p) == {i \in 1..Len(seq) : seq[i][2] = p}

\* the entries directly in directory d
ChildrenOf(f, d) == {p \in DOMAIN f : Len(p) = Len(d) + 1 /\ IsPrefix(d, p)}

\* C17: among the entries of one directory recursive_iglob yields the
\* subdirectories before the files, and when it yields an entry from inside
\* a subdirectory of a directory d it has yielded every entry directly in d.
C17_LevelBeforeDescent ==
  args.op = "iglob" =>
    LET y == yielded["c"]
    IN /\ \A i \in 1..Len(y), j \in 1..Len(y) :
            (i < j /\ Parent(y[i][2]) = Parent(y[j][2]) /\ y[i][1] = "f") => y[j][1] = "f"
       /\ \A j \in 1..Len(y) :
            \A d \in Prefixes(Parent(y[j][2])) :
              (IsPrefix(args.src, d) /\ d # Parent(y[j][2])) =>
                \A x \in ChildrenOf(fs, d) : \E i \in Where(y, x) : i < j

\* C17 witness: the root's subdirectory, then the root's file, then the
\* entry inside the subdirectory
C17_Witness ==
  /\ args.op = "iglob" /\ pc["c"] = "done"
  /\ \E i \in 1..Len(yielded["c"]), j \in 1..Len(yielded["c"]), k \in 1..Len(yielded["c"]) :
       /\ i < j /\ j < k
       /\ yielded["c"][i][1] = "d" /\ Parent(yielded["c"][i][2]) = args.src
       /\ yielded["c"][j][1] = "f" /\ Parent(yielded["c"][j][2]) = args.src
       /\ Parent(yielded["c"][k][2]) = yielded["c"][i][2]

\* C18: when the root is absent or not a directory, the first step of
\* recursive_iglob and of copy_tree can be taken and raises the error of a
\* missing directory (ValueError); nothing is yielded, nothing is recorded
\* as copied and the filesystem stays as it was.
C18_MissingRootFails ==
  ~IsDir(fs0, args.src) =>
    /\ pc["c"] \in {"call", "error"}
    /\ pc["c"] = "call" => ENABLED (CallIglob \/ CallCopyTree)
    /\ pc["c"] = "error" => err["c"] = "ValueError"
    /\ yielded["c"] = <<>> /\ copied["c"] = <<>>
    /\ fs = fs0

\* C18 witness: copy_tree from a file has failed
C18_Witness ==
  /\ args.op = "copy_tree" /\ IsFile(fs0, args.src)
  /\ pc["c"] = "error" /\ err["c"] = "ValueError"

\* C18 witness of the walk: recursive_iglob of an absent root has failed
C18_WitnessIglob ==
  /\ args.op = "iglob" /\ args.src \notin DOMAIN fs0
  /\ pc["c"] = "error" /\ err["c"] = "ValueError"

----------------------------------------------------------------------------
(* extract_zip_stream: the archives of TestExtractZipStream and the           *)
(* extraction of their entries below a destination directory                  *)

\* most leading directories an extraction is asked to ignore
MaxIgnore == 2

\* s without its first n elements
Drop(n, s) == IF n >= Len(s) THEN <<>> ELSE SubSeq(s, n + 1, Len(s))

RECURSIVE ZipNames(_, _, _)
\* zip_archive: the names of the archive of the tree at the head of stack,
\* as <<kind, path>>: for each directory of os.walk the directory, then its files
ZipNames(f, stack, ord) ==
  IF stack = <<>> THEN <<>>
  ELSE LET top == Head(stack)
           dirnames == ListDir(f, top, "d", ord)
           filenames == ListDir(f, top, "f", ord)
       IN << <<"d", top>> >> \o filenames
            \o ZipNames(f, [i \in 1..Len(dirnames) |-> dirnames[i][2]] \o Tail(stack), ord)

\* the archive of tree t: its root ("./"), directories and files by their
\* paths relative to the root
ZipArchive(t, ord) ==
  LET f == Place(SrcRoot, t, "zip")
      names == ZipNames(f, <<SrcRoot>>, ord)
  IN [i \in 1..Len(names) |-> <<names[i][1], RelPath(names[i][2], SrcRoot)>>]

\* an archive without entries for its directories
FilesOnly(names) == SelectSeq(names, LAMBDA e : e[1] = "f")

\* file entries whose names climb out of where they are extracted
Climbing == { <<"f", <<"..", "b">>>>, <<"f", <<"a", "..", "..", "b">>>> }

\* the stripping of the first n path components whatever the entry
TrimComponents(e, n) == Drop(n, e[2])

\* TestExtractZipStream.trim: the path the test requires an entry to have
\* below the destination: the first n directories of the name are dropped,
\* the name after the last separator (empty for a directory entry) is kept
Trim(e, n) ==
  IF e[1] = "d" THEN Drop(n, e[2])
  ELSE Drop(n, Parent(e[2])) \o <<Last(e[2])>>

RECURSIVE Resolve(_)
\* the path the operating system reaches by p, ".." leading to the parent
Resolve(p) ==
  IF p = <<>> THEN <<>>
  ELSE LET r == Resolve(Parent(p))
       IN IF Last(p) = ".." THEN (IF r = <<>> THEN <<>> ELSE Parent(r))
          ELSE Append(r, Last(p))

\* a faulty extractor that takes the names of the archive as they are
Unsanitized(rel, policy) == [ok |-> TRUE, rel |-> rel]

\* the treatment of parent-directory segments: the entry is rejected, or
\* the segments are removed from its path
Sanitized(rel, policy) ==
  IF \A i \in 1..Len(rel) : rel[i] # ".." THEN [ok |-> TRUE, rel |-> rel]
  ELSE IF policy = "reject" THEN [ok |-> FALSE, rel |-> rel]
  ELSE [ok |-> TRUE, rel |-> SelectSeq(rel, LAMBDA n : n # "..")]

\* mode of a file made by open(..., "wb") (0666 masked by the umask 022)
DefaultFileMode == Oct(0, 6, 4, 4)

\* open(p, "wb") and write
WriteFile(f, p, d) ==
  IF IsDir(f, p) THEN Fail(f, "IsADirectoryError")
  ELSE IF Parent(p) # <<>> /\ ~IsDir(f, Parent(p)) THEN Fail(f, "FileNotFoundError")
  ELSE IF IsFile(f, p) THEN Ok([f EXCEPT ![p].data = d])
  ELSE Ok([q \in DOMAIN f \cup {p} |-> IF q = p THEN FileEntry(DefaultFileMode, d) ELSE f[q]])

\* the extraction of one entry: [ok, fs, exc, rec]
ExtractEntry(f, dst, e, n, policy) ==
  LET safe == Sanitized(Trim(e, n), policy)
      target == Resolve(dst \o safe.rel)
      md == Makedirs(f, IF e[1] = "d" THEN target ELSE Parent(target))
      wr == IF e[1] = "d" \/ ~md.ok THEN md
            ELSE WriteFile(md.fs, target, [tag |-> "zip", rel |-> e[2]])
  IN IF ~safe.ok THEN [ok |-> FALSE, fs |-> f, exc |-> "ArchiveError", rec |-> <<>>]
     ELSE IF safe.rel = <<>> THEN [ok |-> TRUE, fs |-> f, exc |-> "none", rec |-> <<>>]
     ELSE [ok |-> wr.ok, fs |-> wr.fs, exc |-> wr.exc,
           rec |-> IF wr.ok THEN <<<<e[1], target>>>> ELSE <<>>]

\* the archive is opened: malformed bytes are an ArchiveError
ZipOpen ==
  /\ args.op = "extract_zip_stream"
  /\ pc["c"] = "call"
  /\ IF args.wellformed
       THEN /\ pc' = [pc EXCEPT !["c"] = "extract"]
            /\ walk' = [walk EXCEPT !["c"] = [stack |-> <<>>, pending |-> args.namelist]]
            /\ err' = err
       ELSE /\ pc' = [pc EXCEPT !["c"] = "error"]
            /\ err' = [err EXCEPT !["c"] = "ArchiveError"]
            /\ walk' = walk
  /\ UNCHANGED <<fs, fs0, args, copied, yielded, lockvars, stagevars>>

\* the next entry of the archive is extracted, or the extraction ends
ZipExtract ==
  /\ pc["c"] = "extract"
  /\ IF walk["c"].pending = <<>>
       THEN /\ pc' = [pc EXCEPT !["c"] = "done"]
            /\ UNCHANGED <<fs, walk, copied, err>>
       ELSE LET r == ExtractEntry(fs, args.dst, Head(walk["c"].pending),
                                  args.ignore, args.policy)
            IN /\ fs' = r.fs
               /\ walk' = [walk EXCEPT !["c"].pending = Tail(@)]
               /\ copied' = [copied EXCEPT !["c"] = @ \o r.rec]
               /\ err' = [err EXCEPT !["c"] = r.exc]
               /\ pc' = [pc EXCEPT !["c"] = IF r.ok THEN "extract" ELSE "error"]
  /\ UNCHANGED <<fs0, args, yielded, lockvars, stagevars>>

\* the archives: as zip_archive makes them, without their directory
\* entries, and with a climbing entry put first or last
Archives ==
  UNION {{ZipArchive(t, o), FilesOnly(ZipArchive(t, o))}
           \cup {<<x>> \o ZipArchive(t, o) : x \in Climbing}
           \cup {ZipArchive(t, o) \o <<x>> : x \in Climbing}
         : t \in StageTrees, o \in Orders}

\* the destination is an empty directory beside a file that is not part of it
ZipFs == Place(DstRoot, {}, "-") @@ (<<"b">> :> FileEntry(InitFileMode, [tag |-> "-", rel |-> <<>>]))

InitZip ==
  /\ fs = ZipFs
  /\ \E n \in 0..MaxIgnore, pol \in {"reject", "normalize"} :
       \/ \E names \in Archives :
            args = [op |-> "extract_zip_stream", src |-> SrcRoot, dst |-> DstRoot,
                    exclude |-> {}, ord |-> <<"a", "b">>, exclusive |-> NoModes,
                    namelist |-> names, ignore |-> n, policy |-> pol, wellformed |-> TRUE]
       \/ args = [op |-> "extract_zip_stream", src |-> SrcRoot, dst |-> DstRoot,
                   exclude |-> {}, ord |-> <<"a", "b">>, exclusive |-> NoModes,
                   namelist |-> <<>>, ignore |-> n, policy |-> pol, wellformed |-> FALSE]
  /\ InitProcs

NextZip == ZipOpen \/ ZipExtract

SpecZip == InitZip /\ [][NextZip]_vars

----------------------------------------------------------------------------
(* Claims about extract_zip_stream, checked under SpecZip *)

ZipDone == pc["c"] = "done"
Entries == {args.namelist[i] : i \in 1..Len(args.namelist)}
NoDotDot(rel) == SelectSeq(rel, LAMBDA n : n # "..")
\* the directories a relative path needs above it
Above(rel) == {SubSeq(rel, 1, k) : k \in 1..(Len(rel) - 1)}
RelBelow(f, r) == {RelPath(p, r) : p \in Below(f, r)}
\* an entry's path without its first n directories: a file keeps its name
\* when it has no more than n components
Kept(e, n) == IF e[1] = "f" /\ Len(e[2]) <= n THEN <<Last(e[2])>> ELSE Drop(n, e[2])

C19_WitnessIntermediate ==
  /\ ZipDone /\ args.ignore = 0
  /\ \A e \in Entries : e[1] = "f"
  /\ \E e \in Entries : Len(e[2]) = 2 /\ IsDir(fs, args.dst \o Parent(e[2]))

\* C20: whatever the archive and ignore_root_dirs, at every step of the
\* extraction every path created or written lies below the destination, and
\* all that existed elsewhere is as it was.
C20_NothingOutsideDst ==
  /\ \A p \in DOMAIN fs \cup DOMAIN fs0 :
       \/ IsPrefix(args.dst, p) /\ p # args.dst
       \/ p \in DOMAIN fs0 /\ p \in DOMAIN fs /\ fs[p] = fs0[p]
  /\ \A p \in Paths(copied["c"]) : IsPrefix(args.dst, p) /\ p # args.dst

\* C20 witness: an entry named ../b was extracted below the destination
C20_Witness ==
  /\ ZipDone /\ args.ignore = 0 /\ args.policy = "normalize"
  /\ <<"f", <<"..", "b">>>> \in Entries
  /\ <<"f", args.dst \o <<"b">>>> \in {copied["c"][i] : i \in 1..Len(copied["c"])}

\* C20 witness of the rejection: an entry named ../b ended the extraction
\* after other entries were written
C20_WitnessRejected ==
  /\ pc["c"] = "error" /\ err["c"] = "ArchiveError" /\ args.wellformed
  /\ copied["c"] # <<>>

----------------------------------------------------------------------------
(* clean_dir_name on generated names: a name is a sequence of characters *)

\* longest generated name
MaxNameLen == 3

\* the characters of the generated names
Chars == {"a", "b", "/", "_"}

RECURSIVE NamesUpTo(_)
NamesUpTo(k) ==
  IF k = 0 THEN {<<>>}
  ELSE NamesUpTo(k - 1) \cup {Append(n, ch) : n \in {x \in NamesUpTo(k - 1) : Len(x) = k - 1},
                                               ch \in Chars}

\* a faulty replace that replaces the first occurrence only
CleanDirNameFirst(name) ==
  [i \in 1..Len(name) |->
     IF name[i] = "/" /\ (\A j \in 1..(i - 1) : name[j] # "/") THEN "_" ELSE name[i]]

\* clean_dir_name: name.replace('/', '_')
CleanDirName(name) == [i \in 1..Len(name) |-> IF name[i] = "/" THEN "_" ELSE name[i]]

\* clean_dir_name(name), its result kept
CleanCall ==
  /\ args.op = "clean_dir_name"
  /\ pc["c"] = "call"
  /\ yielded' = [yielded EXCEPT !["c"] = <<CleanDirName(args.name)>>]
  /\ pc' = [pc EXCEPT !["c"] = "cleaned"]
  /\ UNCHANGED <<fs, fs0, args, err, walk, copied, lockvars, stagevars>>

\* clean_dir_name applied to its own result
CleanAgain ==
  /\ pc["c"] = "cleaned"
  /\ yielded' = [yielded EXCEPT !["c"] = Append(@, CleanDirName(@[1]))]
  /\ pc' = [pc EXCEPT !["c"] = "done"]
  /\ UNCHANGED <<fs, fs0, args, err, walk, copied, lockvars, stagevars>>

InitClean ==
  /\ fs = Place(SrcRoot, {}, "src")
  /\ \E n \in NamesUpTo(MaxNameLen) :
       args = [op |-> "clean_dir_name", src |-> SrcRoot, dst |-> DstRoot, exclude |-> {},
               ord |-> <<"a", "b">>, exclusive |-> NoModes, name |-> n]
  /\ InitProcs

NextClean == CleanCall \/ CleanAgain

SpecClean == InitClean /\ [][NextClean]_vars

----------------------------------------------------------------------------
(* Claims about clean_dir_name, checked under SpecClean *)

HasSlash(n) == \E i \in 1..Len(n) : n[i] = "/"

\* C21: the result of clean_dir_name is its argument when the argument has
\* no forward slash; it has the argument's length, an underscore wherever the
\* argument has a forward slash and the argument's character elsewhere, so
\* no forward slash; and the result of a second application is the first's.
C21_SlashesBecomeUnderscores ==
  yielded["c"] # <<>> =>
    LET r == yielded["c"][1]
    IN /\ ~HasSlash(args.name) => r = args.name
       /\ Len(r) = Len(args.name)
       /\ \A i \in 1..Len(r) : r[i] = IF args.name[i] = "/" THEN "_" ELSE args.name[i]
       /\ ~HasSlash(r)
       /\ Len(yielded["c"]) = 2 => yielded["c"][2] = r

\* C21 witness: a name with two forward slashes was cleaned twice
C21_Witness ==
  /\ pc["c"] = "done" /\ args.name = <<"/", "a", "/">>
  /\ yielded["c"] = << <<"_", "a", "_">>, <<"_", "a", "_">> >>

----------------------------------------------------------------------------
(* recursive_iglob on trees one entry larger than those of SpecTree *)

WalkTrees == TreesOfSize(MaxEntries + 1)

InitWalk ==
  /\ \E t \in WalkTrees, o \in Orders :
       /\ fs = Place(SrcRoot, t, "src") @@ Place(DstRoot, {}, "dst")
       /\ args = [op |-> "iglob", src |-> SrcRoot, dst |-> DstRoot,
                  exclude |-> {}, ord |-> o, exclusive |-> NoModes]
  /\ InitProcs

NextWalk == CallIglob \/ IglobLoop

SpecWalk == InitWalk /\ [][NextWalk]_vars

\* C22: recursive_iglob yields no entry at depth k+1 below the root before an
\* entry at depth k: the depths of the entries never decrease along the
\* sequence it yields.
C22_DepthNeverDecreases ==
  args.op = "iglob" =>
    \A i \in 1..Len(yielded["c"]), j \in 1..Len(yielded["c"]) :
      i < j => Len(yielded["c"][i][2]) <= Len(yielded["c"][j][2])

----------------------------------------------------------------------------
(* Claims about the scopes of copy_test_script_files, checked under Spec *)

\* where the handle on the script directory is open, and where its lock is held
HandleScope == {"scripts_lock", "scripts_call", "scripts_copy", "scripts_unlock",
                "scripts_close"}
LockScope == {"scripts_call", "scripts_copy", "scripts_unlock"}

\* the handle and the lock of s are as its position says
ScopesInOrder(s, at, tab, n) ==
  /\ tab[s].open <=> at[s] \in HandleScope
  /\ tab[s].lock = (IF at[s] \in LockScope THEN "sh" ELSE "un")
  /\ n[s].acq <= 1
  /\ n[s].acq - n[s].rel = (IF at[s] \in LockScope THEN 1 ELSE 0)

\* C23: copy_test_script_files opens the handle, takes the shared lock, copies,
\* releases and closes in that order on every exit path: the handle is open
\* exactly from the open to the close, the shared lock is held exactly from
\* its grant to fd_lock's exit and so only on an open handle, every step of
\* the copy that reads the script tree is taken with the lock held, and once
\* the function has returned or failed there is no lock and no open handle.
C23_OpenLockCopyUnlockClose ==
  [][/\ ScopesInOrder("s1", pc', fdtab', nlock')
     /\ (pc["s1"] \in ScriptScope /\ (walk'["s1"] # walk["s1"] \/ copied'["s1"] # copied["s1"]))
          => (fdtab["s1"].open /\ fdtab["s1"].lock = "sh"
              /\ fdtab'["s1"].open /\ fdtab'["s1"].lock = "sh")
     /\ (pc["s1"] \in ScriptScope /\ pc'["s1"] \notin ScriptScope)
          => (pc["s1"] \in {"scripts_open", "scripts_close"}
              /\ ~fdtab'["s1"].open /\ fdtab'["s1"].lock = "un")]_vars

\* C23 witness: a script file was copied under the lock and the function
\* returned with the lock released once and the handle closed
C23_Witness ==
  /\ pc["s1"] = "done" /\ staged["s1"].script_files # <<>>
  /\ nlock["s1"] = [acq |-> 1, rel |-> 1]
  /\ ~fdtab["s1"].open /\ fdtab["s1"].lock = "un"

\* C23 witness: the copy failed, the lock was released and the handle closed
C23_WitnessFailed ==
  /\ pc["s1"] = "error" /\ copied["s1"] # <<>>
  /\ nlock["s1"] = [acq |-> 1, rel |-> 1]
  /\ ~fdtab["s1"].open /\ fdtab["s1"].lock = "un"

----------------------------------------------------------------------------
(* An fd_lock scope opened inside another on the same descriptor: "p1" nests,
   "p2" locks the same file through a descriptor of its own *)

\* the body of the outer scope calls fd_lock(fd, inner) again: flock on a
\* descriptor that holds a lock of another mode first removes that lock
NestRequest ==
  /\ pc["p1"] = "outer"
  /\ fdtab' = [fdtab EXCEPT !["p1"].lock = IF @ = LockMode(args.inner) THEN @ ELSE "un"]
  /\ pc' = [pc EXCEPT !["p1"] = "converting"]
  /\ UNCHANGED <<treevars, queue, nlock>>

\* the inner flock is granted
NestEnter == FdLockEnter("p1", args.inner, "converting", "inner") /\ UNCHANGED treevars

\* the body of the inner scope raises
NestBodyRaises ==
  /\ pc["p1"] = "inner"
  /\ err["p1"] = "none"
  /\ err' = [err EXCEPT !["p1"] = "Exception"]
  /\ UNCHANGED <<fs, fs0, args, pc, walk, copied, yielded, staged, hist, lockvars>>

\* the inner scope's finally: flock(fd, LOCK_UN)
NestExit == FdLockExit("p1", "inner", "resumed") /\ UNCHANGED treevars

\* the outer scope's finally, reached with or without a scope inside
NestOuterExit ==
  /\ pc["p1"] \in {"outer", "resumed"}
  /\ FdLockExit("p1", pc["p1"], "unlocked")
  /\ UNCHANGED treevars

NestOpen(p) == FdOpen(p, "call", "opened") /\ UNCHANGED treevars

NestLock(p) ==
  /\ FdLockEnter(p, args.exclusive[p], "opened", IF p = "p1" THEN "outer" ELSE "locked")
  /\ UNCHANGED treevars

NestOtherExit == FdLockExit("p2", "locked", "unlocked") /\ UNCHANGED treevars

NestClose(p) == FdClose(p, "unlocked", "done", "error") /\ UNCHANGED treevars

InitNest ==
  /\ \E m \in [TestProcs -> BOOLEAN], i \in BOOLEAN :
       args = [op |-> "fd_lock", src |-> SrcRoot, dst |-> DstRoot, exclude |-> {},
               ord |-> <<"a", "b">>, exclusive |-> m, inner |-> i]
  /\ fs = Place(SrcRoot, {}, "src")
  /\ InitProcs

NextNest ==
  \/ NestRequest
  \/ NestEnter
  \/ NestBodyRaises
  \/ NestExit
  \/ NestOuterExit
  \/ NestOtherExit
  \/ \E p \in TestProcs : NestOpen(p) \/ NestLock(p) \/ NestClose(p)

SpecNest == InitNest /\ [][NextNest]_vars

----------------------------------------------------------------------------
(* Claims about nested fd_lock scopes, checked under SpecNest *)

Requested(exclusive) == IF exclusive THEN "ex" ELSE "sh"

\* C24 (as claimed): from the grant of its outer scope to that scope's exit
\* p1 holds the lock in the mode the outer scope requested, a scope opened
\* and closed inside it included
C24_HeldThroughNestedScope ==
  pc["p1"] \in {"outer", "converting", "inner", "resumed"} =>
    fdtab["p1"].lock = Requested(args.exclusive["p1"])

\* C24 (amended): a scope with no scope inside it holds the lock in the mode
\* it requested from its grant to its exit; a scope opened inside another on
\* the same descriptor holds the lock in its own mode, and after its exit the
\* descriptor holds no lock for the rest of the outer scope.
C24_HeldUnlessNested ==
  /\ pc["p2"] = "locked" => fdtab["p2"].lock = Requested(args.exclusive["p2"])
  /\ pc["p1"] = "outer" => fdtab["p1"].lock = Requested(args.exclusive["p1"])
  /\ pc["p1"] = "inner" => fdtab["p1"].lock = Requested(args.inner)
  /\ pc["p1"] = "resumed" => fdtab["p1"].lock = "un"

\* C24 witness: p1 is back in its outer, exclusive scope after a scope inside
\* it, holds no lock, and p2 holds the exclusive lock
C24_Witness ==
  /\ pc["p1"] = "resumed" /\ err["p1"] = "none" /\ args.exclusive["p1"]
  /\ fdtab["p1"].lock = "un"
  /\ pc["p2"] = "locked" /\ fdtab["p2"].lock = "ex"

----------------------------------------------------------------------------
(* Staging operations that run again and again beside one writer, each step
   of a running process eventually taken *)

Stagers == {"s1", "s2"}

\* the paths of staging operation s: its submission and its workspace
Own(s, p) == IsPrefix(FilesPath(s), p) \/ IsPrefix(TestsPath(s), p)

\* the caller discards the workspace, recreates it and the submission, and
\* runs setup_files again
StageAgain(s) ==
  /\ pc[s] \in {"done", "error"}
  /\ fs' = [p \in {q \in DOMAIN fs : ~Own(s, q)} \cup {q \in DOMAIN fs0 : Own(s, q)} |->
              IF Own(s, p) THEN fs0[p] ELSE fs[p]]
  /\ pc' = [pc EXCEPT ![s] = "call"]
  /\ err' = [err EXCEPT ![s] = "none"]
  /\ walk' = [walk EXCEPT ![s] = WalkFrom(<<>>)]
  /\ copied' = [copied EXCEPT ![s] = <<>>]
  /\ nlock' = [nlock EXCEPT ![s] = [acq |-> 0, rel |-> 0]]
  /\ staged' = [staged EXCEPT ![s] = [student_files |-> <<>>, script_files |-> <<>>, i |-> 1]]
  /\ hist' = [hist EXCEPT ![s] = <<>>]
  /\ UNCHANGED <<fs0, args, yielded, fdtab, queue>>

\* the steps of setup_files that are no failure of the operating system
Progress(s) ==
  \/ StageChmodRoot(s)
  \/ StageMoveMakedirs(s)
  \/ StageMoveCall(s)
  \/ StageMoveCopy(s)
  \/ StageMoveRmtree(s)
  \/ StageChmodStudent(s)
  \/ StageScriptsIsdir(s)
  \/ StageScriptsOpen(s)
  \/ StageScriptsLock(s)
  \/ StageScriptsCall(s)
  \/ StageScriptsCopy(s)
  \/ StageScriptsUnlock(s)
  \/ StageScriptsClose(s)
  \/ StageChmodScript(s)

\* one script file or directory, a submission of one file and an empty one
InitFair ==
  /\ \E t \in TreesOfSize(1) :
       /\ args = StageArgs(<<"a", "b">>)
       /\ fs = StageFs("s1", {<<<<"a">>, "f">>}) @@ StageFs("s2", {}) @@ Scripts(t)
  /\ InitProcs

NextFair == Writer \/ \E s \in Stagers : Stage(s) \/ StageAgain(s)

\* a process that can take a step takes one, and a writer whose lock can be
\* granted again and again is granted it
Fairness ==
  /\ \A s \in Stagers : WF_vars(Progress(s))
  /\ WF_vars(Writer)
  /\ SF_vars(WriterLock)

SpecFair == InitFair /\ [][NextFair]_vars /\ Fairness

----------------------------------------------------------------------------
(* Claims about blocking and progress, checked under SpecFair *)

Terminal(s) == pc[s] \in {"done", "error"}
WriterHolds == fdtab["w"].lock = "ex"

C25_WitnessDone ==
  \A s \in Stagers : pc[s] = "done" /\ nlock[s] = [acq |-> 1, rel |-> 1]

WriterWaiting == pc["w"] = "w_lock"
WriterGranted == pc["w"] = "w_write" /\ fdtab["w"].lock = "ex"

\* C26 (as claimed): a writer waiting for the exclusive lock is eventually
\* granted it, every shared holder releasing, while staging operations keep
\* requesting shared locks
C26_WriterNotStarved == WriterWaiting ~> WriterGranted

\* no staging operation is at the flock of the script directory
NoSharedRequest == \A s \in Stagers : pc[s] # "scripts_lock"

\* C26 (amended): a writer waiting for the exclusive lock is eventually
\* granted it if every shared holder eventually releases and the staging
\* operations eventually stop requesting shared locks.
C26_GrantedOnceReadersStop == (<>[]NoSharedRequest) => (WriterWaiting ~> WriterGranted)

\* C26 witness: the writer waits while both staging operations hold the
\* shared lock
C26_Witness ==
  /\ WriterWaiting /\ fdtab["w"].open
  /\ \A s \in Stagers : fdtab[s].lock = "sh"

----------------------------------------------------------------------------
(* Two staging operations on one script directory: each runs alone first,
   its outcome is kept and its submission and workspace are recreated; then
   the two run concurrently *)

\* what a staging operation produces: its workspace with the permission bits
\* and the two records
Outcome(s) ==
  [ws |-> [p \in {q \in DOMAIN fs : IsPrefix(TestsPath(s), q)} |-> fs[p]],
   student_files |-> staged[s].student_files,
   script_files |-> staged[s].script_files]

Other(s) == IF s = "s1" THEN "s2" ELSE "s1"

\* s runs alone: it has no outcome yet, the other has not started, s1 first
Alone(s) == yielded[s] = <<>> /\ pc[Other(s)] = "call" /\ (s = "s2" => yielded["s1"] # <<>>)
Together == \A s \in Stagers : yielded[s] # <<>>

\* a step of setup_files, alone or beside the other
ManyStage(s) ==
  /\ Alone(s) \/ Together
  /\ Stage(s)

\* the end of the run alone: the outcome kept, the submission and the
\* workspace recreated
SoloEnd(s) ==
  /\ Alone(s)
  /\ pc[s] = "done"
  /\ yielded' = [yielded EXCEPT ![s] = <<Outcome(s)>>]
  /\ fs' = [p \in {q \in DOMAIN fs : ~Own(s, q)} \cup {q \in DOMAIN fs0 : Own(s, q)} |->
              IF Own(s, p) THEN fs0[p] ELSE fs[p]]
  /\ pc' = [pc EXCEPT ![s] = "call"]
  /\ walk' = [walk EXCEPT ![s] = WalkFrom(<<>>)]
  /\ copied' = [copied EXCEPT ![s] = <<>>]
  /\ nlock' = [nlock EXCEPT ![s] = [acq |-> 0, rel |-> 0]]
  /\ staged' = [staged EXCEPT ![s] = [student_files |-> <<>>, script_files |-> <<>>, i |-> 1]]
  /\ hist' = [hist EXCEPT ![s] = <<>>]
  /\ UNCHANGED <<fs0, args, err, fdtab, queue>>

InitMany ==
  /\ \E student1 \in SmallTrees, student2 \in SmallTrees, t \in SmallTrees :
       /\ args = StageArgs(<<"a", "b">>)
       /\ fs = StageFs("s1", student1) @@ StageFs("s2", student2) @@ Scripts(t)
  /\ InitProcs

NextMany == \E s \in Stagers : ManyStage(s) \/ SoloEnd(s)

SpecMany == InitMany /\ [][NextMany]_vars

----------------------------------------------------------------------------
(* Claims about concurrent staging operations, checked under SpecMany *)

\* C27: whatever staging operations have run, alone or concurrently, the
\* script directory has the entries, the contents and the permission bits it
\* started with; and a staging operation that is done beside the other has
\* produced the workspace, permission bits included, and the records it
\* produced alone.
C27_SameAsAlone ==
  /\ \A p \in DOMAIN fs \cup DOMAIN fs0 :
       IsPrefix(ScriptDir, p) => (p \in DOMAIN fs /\ p \in DOMAIN fs0 /\ fs[p] = fs0[p])
  /\ \A s \in Stagers : (Together /\ pc[s] = "done") => Outcome(s) = yielded[s][1]

\* C27 witness: both staging operations are done, each has copied a student
\* file and a script file, and both held the shared lock at once
C27_Witness ==
  /\ Together
  /\ \A s \in Stagers :
       /\ pc[s] = "done"
       /\ staged[s].student_files # <<>> /\ staged[s].script_files # <<>>

\* C27 witness: the two staging operations hold the shared lock at once
C27_WitnessOverlap ==
  /\ Together
  /\ \A s \in Stagers : pc[s] = "scripts_copy" /\ fdtab[s].lock = "sh"

====
